---- MODULE Spec2Model ----
(***************************************************************************)
(* Model of the circular-economy assessment core (src/circularity_core.py):*)
(* the value types and their validation, the integrity model, the ternary  *)
(* geometry, the pathway trajectory engine and the assessment registry.    *)
(*                                                                         *)
(* Numbers.  The program computes in binary floating point.  In the model  *)
(* a number is a rational, a pair <<n, d>> in lowest terms with d > 0.  The*)
(* inputs of the model are dyadic (halves, quarters) or small integers, on *)
(* which +, - and * are exact in floating point as they are in the model;  *)
(* the decimal literals of the code (0.15, 0.001) stand for themselves.    *)
(* A quotient is not dyadic in general: / rounds it to the nearest float   *)
(* (ties to even).  The model rounds quotients the same way, to a mantissa *)
(* of Precision bits where the program's floats have 53.                   *)
(* The y coordinates of the geometry carry the irrational factor sqrt(3)/2;*)
(* they are kept as the rational coefficient of that factor.               *)
(***************************************************************************)
EXTENDS Integers, Sequences, FiniteSets, TLC

\* ------------------------------------------------------------------ bounds

\* Longest stage list handed to add_pathway.
MaxStages == 2

\* Significant bits kept by a division (53 in the program's floats).
Precision == 10

\* ------------------------------------------------------ rational arithmetic

Abs(n) == IF n < 0 THEN -n ELSE n

RECURSIVE GCD(_, _)
GCD(a, b) == IF b = 0 THEN a ELSE GCD(b, a % b)

\* The number n/d (d # 0) in lowest terms with a positive denominator.
Rat(n, d) ==
    LET s == IF d < 0 THEN -1 ELSE 1
        g == GCD(Abs(n), Abs(d))
    IN  <<(s * n) \div g, (s * d) \div g>>

Zero == <<0, 1>>
One == <<1, 1>>

\* Sums and differences over the least common denominator.
RAdd(x, y) ==
    LET g == GCD(x[2], y[2])
    IN  Rat(x[1] * (y[2] \div g) + y[1] * (x[2] \div g), (x[2] \div g) * y[2])
RSub(x, y) == RAdd(x, <<-y[1], y[2]>>)
RMul(x, y) == Rat(x[1] * y[1], x[2] * y[2])

RECURSIVE Pow2(_)
Pow2(k) == IF k = 0 THEN 1 ELSE 2 * Pow2(k - 1)

\* A mantissa m of Precision bits: MantissaMin <= m < MantissaLimit.
MantissaLimit == Pow2(Precision)
MantissaMin == Pow2(Precision - 1)

\* (n/d) * 2^e for n, d > 0, rounded to Precision significant bits, ties to
\* even.
RECURSIVE RoundPos(_, _, _)
RoundPos(n, d, e) ==
    IF n >= d * MantissaLimit THEN RoundPos(n, 2 * d, e + 1)
    ELSE IF n < d * MantissaMin THEN RoundPos(2 * n, d, e - 1)
    ELSE LET m == n \div d
             r == n % d
             up == 2 * r > d \/ (2 * r = d /\ m % 2 = 1)
             mm == IF up THEN m + 1 ELSE m
         IN  IF e >= 0 THEN Rat(mm * Pow2(e), 1) ELSE Rat(mm, Pow2(-e))

\* The rational x rounded to the nearest float.
Round(x) ==
    IF x[1] = 0 THEN Zero
    ELSE IF x[1] < 0 THEN LET p == RoundPos(-x[1], x[2], 0) IN <<-p[1], p[2]>>
    ELSE RoundPos(x[1], x[2], 0)

\* Float division x / y (y # 0).
RDiv(x, y) == Round(Rat(x[1] * y[2], x[2] * y[1]))

RLt(x, y) == x[1] * y[2] < y[1] * x[2]
RLe(x, y) == x[1] * y[2] <= y[1] * x[2]
RMax(x, y) == IF RLt(x, y) THEN y ELSE x
RMin(x, y) == IF RLt(y, x) THEN y ELSE x

\* ------------------------------------------------------------- value types

\* BurdenMetrics.__post_init__: the error raised for the field values, or
\* "ok" when the object is constructed.
BurdenMetricsCheck(cost, environmental, integrity_loss) ==
    IF RLt(cost, Zero) \/ RLt(environmental, Zero) \/ RLt(integrity_loss, Zero)
    THEN "ValueError: All burden values must be non-negative"
    ELSE IF RLt(One, integrity_loss)
    THEN "ValueError: Integrity loss must be between 0 and 1"
    ELSE "ok"

BurdenMetrics(cost, environmental, integrity_loss) ==
    [cost |-> cost, environmental |-> environmental, integrity_loss |-> integrity_loss]

\* LifecycleStage.__post_init__; cycles is an integer.
LifecycleStageCheck(duration, mass_fraction, cycles) ==
    IF RLt(duration, Zero)
    THEN "ValueError: Duration must be non-negative"
    ELSE IF ~(RLt(Zero, mass_fraction) /\ RLe(mass_fraction, One))
    THEN "ValueError: Mass fraction must be between 0 and 1"
    ELSE IF cycles < 1
    THEN "ValueError: Cycles must be at least 1"
    ELSE "ok"

\* Benchmarks.__post_init__ with the cost test written < instead of <=.
BenchmarksCheckZeroCost(cost_max, environmental_max, integrity_loss_max) ==
    IF RLt(cost_max, Zero) \/ RLe(environmental_max, Zero)
    THEN "ValueError: Benchmark maxima must be positive"
    ELSE IF RLe(integrity_loss_max, Zero) \/ RLt(One, integrity_loss_max)
    THEN "ValueError: Integrity loss max must be between 0 and 1"
    ELSE "ok"

\* Benchmarks.__post_init__.
BenchmarksCheck(cost_max, environmental_max, integrity_loss_max) ==
    IF RLe(cost_max, Zero) \/ RLe(environmental_max, Zero)
    THEN "ValueError: Benchmark maxima must be positive"
    ELSE IF RLe(integrity_loss_max, Zero) \/ RLt(One, integrity_loss_max)
    THEN "ValueError: Integrity loss max must be between 0 and 1"
    ELSE "ok"

\* The burdens left as they are, not set against the benchmarks.
NormalizeUnscaled(bm, burdens) ==
    << burdens.cost, burdens.environmental, burdens.integrity_loss >>

\* Benchmarks.normalize: burdens divided component-wise by the maxima.
Normalize(bm, burdens) ==
    << RDiv(burdens.cost, bm.cost_max),
       RDiv(burdens.environmental, bm.environmental_max),
       RDiv(burdens.integrity_loss, bm.integrity_loss_max) >>

\* An absent constraint bound (Python None).
None == "None"

\* Constraints.check_feasibility: a dict with an entry per bound present.
CheckFeasibility(cs, burdens) ==
    LET keys == (IF cs.cost_max # None THEN {"cost"} ELSE {})
                \cup (IF cs.environmental_max # None THEN {"environmental"} ELSE {})
                \cup (IF cs.integrity_min # None THEN {"integrity"} ELSE {})
    IN  [k \in keys |->
            CASE k = "cost" -> RLe(burdens.cost, cs.cost_max)
              [] k = "environmental" -> RLe(burdens.environmental, cs.environmental_max)
              [] k = "integrity" -> RLe(cs.integrity_min, RSub(One, burdens.integrity_loss))]

\* any(feasibility.values()): one satisfied bound is enough, none is not.
AnyFeasible(feasibility) == \E k \in DOMAIN feasibility : feasibility[k]

\* all(feasibility.values()) if feasibility else True
AllFeasible(feasibility) == \A k \in DOMAIN feasibility : feasibility[k]

\* Constraints.is_feasible
IsFeasible(cs, burdens) == AllFeasible(CheckFeasibility(cs, burdens))

\* ---------------------------------------------------------- ternary geometry

\* A normalisation whose fallback for a zero total is the zero triple.
NormalizeTernaryZeroFallback(a, b, c) ==
    LET total == RAdd(RAdd(a, b), c)
    IN  IF total = Zero
        THEN << Zero, Zero, Zero >>
        ELSE << RDiv(a, total), RDiv(b, total), RDiv(c, total) >>

\* TernaryGeometry.normalize_ternary
NormalizeTernary(a, b, c) ==
    LET total == RAdd(RAdd(a, b), c)
    IN  IF total = Zero
        THEN << RDiv(One, <<3, 1>>), RDiv(One, <<3, 1>>), RDiv(One, <<3, 1>>) >>
        ELSE << RDiv(a, total), RDiv(b, total), RDiv(c, total) >>

\* TernaryGeometry.create_scaled_triangle with base_size = 1.0: four vertices,
\* the first repeated; y is the coefficient of sqrt(3)/2.
CreateScaledTriangle(normalized_burdens, z_height) ==
    [ x |-> << RMul(Zero, normalized_burdens[1]),
               RMul(One, normalized_burdens[2]),
               RMul(<<1, 2>>, normalized_burdens[3]),
               RMul(Zero, normalized_burdens[1]) >>,
      y |-> << RMul(Zero, normalized_burdens[1]),
               RMul(Zero, normalized_burdens[2]),
               RMul(One, normalized_burdens[3]),
               RMul(Zero, normalized_burdens[1]) >>,
      z |-> << z_height, z_height, z_height, z_height >> ]

\* TernaryGeometry.calculate_trajectory_point; y is the coefficient of
\* sqrt(3)/2.
CalculateTrajectoryPoint(burdens, bm, z_height) ==
    LET normalized == Normalize(bm, burdens)
        rel == NormalizeTernary(burdens.cost, burdens.environmental,
                                RMul(burdens.integrity_loss, <<10, 1>>))
        total_burden == RAdd(RAdd(burdens.cost, burdens.environmental),
                             burdens.integrity_loss)
    IN  [ x |-> RAdd(RAdd(RMul(rel[1], RMul(Zero, normalized[1])),
                          RMul(rel[2], RMul(One, normalized[2]))),
                     RMul(rel[3], RMul(<<1, 2>>, normalized[3]))),
          y |-> RMul(rel[3], normalized[3]),
          z |-> z_height,
          normalized_burdens |-> normalized,
          total_burden |-> total_burden,
          burden_magnitude |-> RDiv(One, RAdd(total_burden, <<1, 1000>>)) ]

\* ------------------------------------------------------------ integrity model

\* A classification that leaves each boundary value in the better grade.
GetMaterialGradeInclusive(integrity_loss) ==
    IF RLe(integrity_loss, <<15, 100>>) THEN <<"A", "Virgin-Equivalent", "#2ECC71">>
    ELSE IF RLe(integrity_loss, <<40, 100>>) THEN <<"B", "Food-Safe", "#3498DB">>
    ELSE IF RLe(integrity_loss, <<70, 100>>) THEN <<"C", "General Packaging", "#F39C12">>
    ELSE IF RLe(integrity_loss, <<90, 100>>) THEN <<"D", "Fiber/Textile", "#E74C3C">>
    ELSE <<"E", "End-of-Life", "#95A5A6">>

\* IntegrityModel.get_material_grade: grade and grade name (the colour is a
\* constant of the grade).
GetMaterialGrade(integrity_loss) ==
    IF RLt(integrity_loss, <<15, 100>>) THEN <<"A", "Virgin-Equivalent", "#2ECC71">>
    ELSE IF RLt(integrity_loss, <<40, 100>>) THEN <<"B", "Food-Safe", "#3498DB">>
    ELSE IF RLt(integrity_loss, <<70, 100>>) THEN <<"C", "General Packaging", "#F39C12">>
    ELSE IF RLt(integrity_loss, <<90, 100>>) THEN <<"D", "Fiber/Textile", "#E74C3C">>
    ELSE <<"E", "End-of-Life", "#95A5A6">>

\* Every cycle starting from pristine material.
RemainingQualityReset(current_integrity_loss) == One

\* Line 228: remaining_quality = max(0, 1.0 - current_integrity_loss)
RemainingQuality(current_integrity_loss) == RMax(Zero, RSub(One, current_integrity_loss))

\* Line 229: remaining_quality * (1.0 - base_degradation_rate) * mass_fraction
NewRemainingQuality(remaining_quality, base_degradation_rate, mass_fraction) ==
    RMul(RMul(remaining_quality, RSub(One, base_degradation_rate)), mass_fraction)

\* Any quality left counts as recyclable.
IsRecyclableAboveZero(quality_score) == RLt(Zero, quality_score)

\* Line 233: is_recyclable = quality_score >= 10.0
IsRecyclable(quality_score) == RLe(<<10, 1>>, quality_score)

\* IntegrityModel.calculate_integrity
CalculateIntegrity(current_integrity_loss, base_degradation_rate, cycle_num, mass_fraction) ==
    LET remaining_quality == RemainingQuality(current_integrity_loss)
        new_remaining_quality ==
            NewRemainingQuality(remaining_quality, base_degradation_rate, mass_fraction)
        new_integrity_loss == RMin(One, RMax(Zero, RSub(One, new_remaining_quality)))
        quality_score == RMul(new_remaining_quality, <<100, 1>>)
        g == GetMaterialGrade(new_integrity_loss)
    IN  [ integrity_loss |-> new_integrity_loss,
          remaining_quality |-> new_remaining_quality,
          quality_score |-> quality_score,
          grade |-> g[1],
          grade_name |-> g[2],
          grade_color |-> g[3],
          is_recyclable |-> IsRecyclable(quality_score),
          degradation_rate |-> base_degradation_rate,
          cycles_processed |-> cycle_num + 1 ]

\* -------------------------------------------------------------------- inputs

\* LifecycleStage(name, burdens, duration, mass_fraction, cycles, ...).
LifecycleStage(nm, burdens, duration, mass_fraction, cycles, cost_inc, env_inc, integrity_inc) ==
    [ name |-> nm, burdens |-> burdens, duration |-> duration,
      mass_fraction |-> mass_fraction, cycles |-> cycles,
      cost_increase_per_cycle |-> cost_inc,
      env_increase_per_cycle |-> env_inc,
      integrity_increase_per_cycle |-> integrity_inc ]

\* The stages a caller may hold: those both constructors accept.
Constructible(S) ==
    { s \in S :
        /\ BurdenMetricsCheck(s.burdens.cost, s.burdens.environmental,
                              s.burdens.integrity_loss) = "ok"
        /\ LifecycleStageCheck(s.duration, s.mass_fraction, s.cycles) = "ok" }

\* Virgin production: no degradation, no duration.
Virgin == LifecycleStage("Virgin Production", BurdenMetrics(One, <<2, 1>>, Zero),
                         Zero, One, 1, Zero, Zero, Zero)
\* Use phase: two cycles, degradation rate 1/4 then 1/2.
Use == LifecycleStage("Use Phase", BurdenMetrics(<<1, 2>>, <<1, 4>>, <<1, 4>>),
                      <<1, 2>>, One, 2, Zero, <<1, 4>>, <<1, 4>>)
\* Recycling loop: three cycles, each keeping a quarter of the quality.
Recycling == LifecycleStage("Mechanical Recycling", BurdenMetrics(One, One, <<1, 2>>),
                            One, <<1, 2>>, 3, <<1, 2>>, Zero, Zero)
\* Full loss in one cycle (degradation rate 1.0, mass fraction 1.0).
Incineration == LifecycleStage("Incineration", BurdenMetrics(<<2, 1>>, One, One),
                               One, One, 1, Zero, Zero, Zero)
\* A stage whose cost falls by 1 per cycle: 1, 0, -1.
Refurbish == LifecycleStage("Refurbish", BurdenMetrics(One, One, Zero),
                            One, One, 3, <<-1, 1>>, Zero, Zero)

\* A stage whose degradation rate falls by 1 per cycle: 1/2, -1/2.
Repolymerize == LifecycleStage("Chemical Recycling", BurdenMetrics(One, One, <<1, 2>>),
                               One, One, 2, Zero, Zero, <<-1, 1>>)

\* A stage that keeps a tenth of the mass: from pristine material it leaves a
\* quality score of exactly 10.
Downcycling == LifecycleStage("Downcycling", BurdenMetrics(One, One, Zero),
                              One, <<1, 10>>, 1, Zero, Zero, Zero)

StagePool == Constructible({Virgin, Use, Recycling, Incineration, Refurbish, Repolymerize})
RegistryPool == Constructible({Use, Incineration, Refurbish})

\* The stage lists of length 0..MaxStages over a pool, stage names distinct.
StageLists(pool) ==
    UNION { { q \in [1..n -> pool] : \A i, j \in 1..n : i # j => q[i].name # q[j].name }
            : n \in 0..MaxStages }

Names == {"Mechanical Closed-Loop", "Chemical Closed-Loop"}

BenchmarkSet == { b \in { [cost_max |-> <<2, 1>>, environmental_max |-> <<4, 1>>,
                           integrity_loss_max |-> One],
                          [cost_max |-> One, environmental_max |-> One,
                           integrity_loss_max |-> <<1, 2>>] } :
                    BenchmarksCheck(b.cost_max, b.environmental_max,
                                    b.integrity_loss_max) = "ok" }

\* Constraints() and
\* Constraints(cost_max=0.5, environmental_max=1.0, integrity_min=0.5)
ConstraintSet == { [cost_max |-> None, environmental_max |-> None, integrity_min |-> None],
                   [cost_max |-> <<1, 2>>, environmental_max |-> One,
                    integrity_min |-> <<1, 2>>] }

\* --------------------------------------------------------------------- state

VARIABLES
    benchmarks,            \* CircularityAssessment.benchmarks
    constraints,           \* CircularityAssessment.constraints
    waste_management,      \* CircularityAssessment.waste_management
    pathways,              \* CircularityAssessment.pathways: name -> PathwayResult
    pc,                    \* "idle", "loop" (inside the trajectory loops), "returned", "raised"
    name, stages,          \* the arguments of the current or last add_pathway call
    error,                 \* the exception the last call raised, "" if none
    notices,               \* the truncation notices the current or last call printed
    stage_idx, cycle_num,  \* position of the two loops (stage_idx is 1-based)
    trajectory_coords, triangle_coords, time_points, cost_cumulative,
    env_cumulative, integrity_cumulative, feasibility_flags,
    current_time, current_cost, current_env, current_integrity, total_cycles,
    built,                 \* the last value-object construction and its outcome
    call                   \* the last call of a pure function or of get_summary_table:
                           \* its name, arguments and result

assessment == <<benchmarks, constraints, waste_management>>
lists == <<trajectory_coords, triangle_coords, time_points, cost_cumulative,
           env_cumulative, integrity_cumulative, feasibility_flags>>
currents == <<current_time, current_cost, current_env, current_integrity>>
frame == <<stage_idx, cycle_num, lists, currents, total_cycles>>
vars == <<assessment, pathways, pc, name, stages, error, notices, frame, built, call>>

EmptyRegistry == [n \in {} |-> {}]

\* The locals with the integrity not reset: it continues from the last point
\* of the pathway computed before.
FrameInitSharedIntegrity ==
    [ trajectory_coords |-> <<>>, triangle_coords |-> <<>>, time_points |-> <<>>,
      cost_cumulative |-> <<>>, env_cumulative |-> <<>>, integrity_cumulative |-> <<>>,
      feasibility_flags |-> <<>>,
      current_time |-> Zero, current_cost |-> Zero, current_env |-> Zero,
      current_integrity |->
          IF pc = "returned" /\ pathways[name].cumulative_integrity_loss # <<>>
          THEN pathways[name].cumulative_integrity_loss[
                   Len(pathways[name].cumulative_integrity_loss)]
          ELSE Zero,
      total_cycles |-> 0 ]

\* The locals of _calculate_pathway_trajectory as first assigned.
FrameInit ==
    [ trajectory_coords |-> <<>>, triangle_coords |-> <<>>, time_points |-> <<>>,
      cost_cumulative |-> <<>>, env_cumulative |-> <<>>, integrity_cumulative |-> <<>>,
      feasibility_flags |-> <<>>,
      current_time |-> Zero, current_cost |-> Zero, current_env |-> Zero,
      current_integrity |-> Zero, total_cycles |-> 0 ]

\* The frame is set from record f, the loops at their first position.
SetFrame(f) ==
    /\ stage_idx' = 1
    /\ cycle_num' = 0
    /\ trajectory_coords' = f.trajectory_coords
    /\ triangle_coords' = f.triangle_coords
    /\ time_points' = f.time_points
    /\ cost_cumulative' = f.cost_cumulative
    /\ env_cumulative' = f.env_cumulative
    /\ integrity_cumulative' = f.integrity_cumulative
    /\ feasibility_flags' = f.feasibility_flags
    /\ current_time' = f.current_time
    /\ current_cost' = f.current_cost
    /\ current_env' = f.current_env
    /\ current_integrity' = f.current_integrity
    /\ total_cycles' = f.total_cycles

NoFrame ==
    [ trajectory_coords |-> <<>>, triangle_coords |-> <<>>, time_points |-> <<>>,
      cost_cumulative |-> <<>>, env_cumulative |-> <<>>, integrity_cumulative |-> <<>>,
      feasibility_flags |-> <<>>,
      current_time |-> Zero, current_cost |-> Zero, current_env |-> Zero,
      current_integrity |-> Zero, total_cycles |-> 0 ]

\* CircularityAssessment.__init__
Init ==
    /\ benchmarks \in BenchmarkSet
    /\ constraints \in ConstraintSet
    /\ waste_management = BurdenMetrics(<<1, 20>>, <<1, 2>>, One)
    /\ pathways = EmptyRegistry
    /\ pc = "idle"
    /\ name = "" /\ stages = <<>>
    /\ error = ""
    /\ notices = <<>>
    /\ stage_idx = 1 /\ cycle_num = 0
    /\ trajectory_coords = <<>> /\ triangle_coords = <<>> /\ time_points = <<>>
    /\ cost_cumulative = <<>> /\ env_cumulative = <<>> /\ integrity_cumulative = <<>>
    /\ feasibility_flags = <<>>
    /\ current_time = Zero /\ current_cost = Zero /\ current_env = Zero
    /\ current_integrity = Zero /\ total_cycles = 0
    /\ built = [type |-> "", args |-> <<>>, outcome |-> ""]
    /\ call = [fn |-> "", args |-> <<>>, result |-> <<>>]

\* ------------------------------------------------- add_pathway, step by step

Idle == pc \in {"idle", "returned", "raised"}

\* add_pathway line 325-326: the empty-pathway error.  Nothing is computed
\* and nothing is stored.
RaiseEmpty(nm, stgs) ==
    /\ pc' = "raised"
    /\ error' = "ValueError: Pathway must have at least one stage"
    /\ name' = nm /\ stages' = stgs
    /\ notices' = <<>>
    /\ UNCHANGED <<assessment, pathways, frame, built, call>>

\* Entering the computation with the cycle counter resumed from the result
\* already stored under the name.
EnterTrajectoryResumed(nm, stgs) ==
    /\ pc' = "loop"
    /\ error' = ""
    /\ name' = nm /\ stages' = stgs
    /\ notices' = <<>>
    /\ SetFrame([FrameInit EXCEPT !.total_cycles =
                    IF nm \in DOMAIN pathways THEN pathways[nm].total_cycles ELSE 0])
    /\ UNCHANGED <<assessment, pathways, built, call>>

\* add_pathway line 328 entering _calculate_pathway_trajectory, lines 338-350.
EnterTrajectory(nm, stgs) ==
    /\ pc' = "loop"
    /\ error' = ""
    /\ name' = nm /\ stages' = stgs
    /\ notices' = <<>>
    /\ SetFrame(FrameInit)
    /\ UNCHANGED <<assessment, pathways, built, call>>

\* add_pathway without the test for an empty stage list.
AddPathwayUnchecked(nm, stgs) ==
    /\ Idle
    /\ EnterTrajectory(nm, stgs)

\* A call add_pathway(nm, stgs).
AddPathway(nm, stgs) ==
    /\ Idle
    /\ IF stgs = <<>> THEN RaiseEmpty(nm, stgs) ELSE EnterTrajectory(nm, stgs)

\* The label of a point: f"{stage.name} (Cycle {n})" if stage.cycles > 1,
\* else the bare stage name.
StageLabel(stage, n) == IF stage.cycles > 1 THEN <<stage.name, n>> ELSE <<stage.name>>

\* Where the loops stand after the iteration at (stage_idx, cycle_num):
\* break leaves the inner loop only, so the outer loop takes the next stage.
AfterBreak == <<stage_idx + 1, 0>>
AfterCycle ==
    IF cycle_num + 1 < stages[stage_idx].cycles
    THEN <<stage_idx, cycle_num + 1>>
    ELSE <<stage_idx + 1, 0>>

\* The exception leaves add_pathway: no result is stored.
Raise(msg) ==
    /\ pc' = "raised"
    /\ error' = msg
    /\ SetFrame(NoFrame)
    /\ UNCHANGED <<assessment, pathways, name, stages, notices, built, call>>

\* A stage time that does not accumulate.
StageTimeReset(time, duration) == duration

\* Line 356: stage_time = current_time + stage.duration
StageTime(time, duration) == RAdd(time, duration)

\* Lines 358-363: base + (cycle_num * increase_per_cycle)
CycleValue(base, n, increase_per_cycle) == RAdd(base, RMul(<<n, 1>>, increase_per_cycle))

\* An accumulation that leaves the mass fraction out.
StageCumulativeUnscaled(current, cycle_value, effective_mass) == RAdd(current, cycle_value)

\* Lines 381-382: current + (cycle value * effective_mass)
StageCumulative(current, cycle_value, effective_mass) ==
    RAdd(current, RMul(cycle_value, effective_mass))

\* A flag evaluated on the running totals instead of the cycle's own values.
FeasibilityFlagCumulative(label, stage_time, burdens) ==
    LET totals == [ burdens EXCEPT !.cost = RAdd(current_cost, burdens.cost),
                                   !.environmental = RAdd(current_env, burdens.environmental) ]
        feasibility == CheckFeasibility(constraints, totals)
    IN  [ stage |-> label, time |-> stage_time, feasibility |-> feasibility,
          is_feasible |-> AllFeasible(feasibility) ]

\* Lines 429-435: the feasibility flag of a recorded cycle.
FeasibilityFlag(label, stage_time, burdens) ==
    LET feasibility == CheckFeasibility(constraints, burdens)
    IN  [ stage |-> label, time |-> stage_time, feasibility |-> feasibility,
          is_feasible |-> AllFeasible(feasibility) ]

\* The notice printed for a rejected cycle (lines 375-378).
Notice(stage, integrity_data) ==
    [ stage |-> stage.name, cycle |-> cycle_num + 1,
      quality_score |-> integrity_data.quality_score,
      grade |-> integrity_data.grade,
      grade_name |-> integrity_data.grade_name ]

\* A rejection that carries the rejected cycle's time and integrity loss on.
RejectCycleCarryingOn(stage, integrity_data) ==
    /\ notices' = Append(notices, Notice(stage, integrity_data))
    /\ total_cycles' = total_cycles + 1
    /\ stage_idx' = AfterBreak[1] /\ cycle_num' = AfterBreak[2]
    /\ current_time' = StageTime(current_time, stage.duration)
    /\ current_integrity' = integrity_data.integrity_loss
    /\ UNCHANGED <<assessment, pathways, pc, name, stages, error,
                   lists, current_cost, current_env, built, call>>

\* Lines 354, 374-379: the cycle is counted, the notice is printed, break.
\* Nothing is appended and the running values stay.
RejectCycle(stage, integrity_data) ==
    /\ notices' = Append(notices, Notice(stage, integrity_data))
    /\ total_cycles' = total_cycles + 1
    /\ stage_idx' = AfterBreak[1] /\ cycle_num' = AfterBreak[2]
    /\ UNCHANGED <<assessment, pathways, pc, name, stages, error,
                   lists, currents, built, call>>

\* One iteration of the inner loop, lines 353-440.
CycleStep ==
    /\ pc = "loop"
    /\ stage_idx <= Len(stages)
    /\ LET stage == stages[stage_idx]
           effective_mass == stage.mass_fraction
           stage_time == StageTime(current_time, stage.duration)
           cycle_cost == CycleValue(stage.burdens.cost, cycle_num,
                                    stage.cost_increase_per_cycle)
           cycle_env == CycleValue(stage.burdens.environmental, cycle_num,
                                   stage.env_increase_per_cycle)
           adjusted_degradation_rate ==
               CycleValue(stage.burdens.integrity_loss, cycle_num,
                          stage.integrity_increase_per_cycle)
           integrity_data == CalculateIntegrity(current_integrity,
                                 adjusted_degradation_rate, cycle_num, effective_mass)
           cycle_integrity == integrity_data.integrity_loss
           stage_integrity == cycle_integrity
           stage_cost == StageCumulative(current_cost, cycle_cost, effective_mass)
           stage_env == StageCumulative(current_env, cycle_env, effective_mass)
           checked == BurdenMetricsCheck(cycle_cost, cycle_env, cycle_integrity)
           point_burdens == BurdenMetrics(cycle_cost, cycle_env, cycle_integrity)
           label == StageLabel(stage, cycle_num + 1)
           point == CalculateTrajectoryPoint(point_burdens, benchmarks, stage_time) @@
                    [ stage_name |-> label,
                      cycle_number |-> cycle_num + 1,
                      cumulative_cost |-> stage_cost,
                      cumulative_environmental |-> stage_env,
                      cumulative_integrity_loss |-> stage_integrity,
                      quality_score |-> integrity_data.quality_score,
                      remaining_quality |-> integrity_data.remaining_quality,
                      material_grade |-> integrity_data.grade,
                      grade_name |-> integrity_data.grade_name,
                      grade_color |-> integrity_data.grade_color,
                      is_recyclable |-> integrity_data.is_recyclable ]
           triangle == CreateScaledTriangle(Normalize(benchmarks, point_burdens), stage_time) @@
                       [ stage_name |-> label ]
           flag == FeasibilityFlag(label, stage_time, point_burdens)
       IN  IF ~integrity_data.is_recyclable
           THEN \* lines 374-379: the notice is printed, break
                RejectCycle(stage, integrity_data)
           ELSE IF checked # "ok"
           THEN \* line 384: BurdenMetrics(...) raises
                Raise(checked)
           ELSE \* lines 381-440: the cycle is recorded
                /\ total_cycles' = total_cycles + 1
                /\ trajectory_coords' = Append(trajectory_coords, point)
                /\ triangle_coords' = Append(triangle_coords, triangle)
                /\ time_points' = Append(time_points, stage_time)
                /\ cost_cumulative' = Append(cost_cumulative, stage_cost)
                /\ env_cumulative' = Append(env_cumulative, stage_env)
                /\ integrity_cumulative' = Append(integrity_cumulative, stage_integrity)
                /\ feasibility_flags' = Append(feasibility_flags, flag)
                /\ current_time' = stage_time
                /\ current_cost' = stage_cost
                /\ current_env' = stage_env
                /\ current_integrity' = stage_integrity
                /\ stage_idx' = AfterCycle[1] /\ cycle_num' = AfterCycle[2]
                /\ UNCHANGED <<assessment, pathways, pc, name, stages, error,
                               notices, built, call>>

\* Rates per executed cycle instead of per unit of time.
AverageBurdenRatePerCycle ==
    IF total_cycles > 0
    THEN [ cost |-> RDiv(current_cost, <<total_cycles, 1>>),
           environmental |-> RDiv(current_env, <<total_cycles, 1>>),
           integrity |-> RDiv(current_integrity, <<total_cycles, 1>>) ]
    ELSE [ cost |-> Zero, environmental |-> Zero, integrity |-> Zero ]

\* Lines 442-447.
AverageBurdenRate ==
    IF RLt(Zero, current_time)
    THEN [ cost |-> RDiv(current_cost, current_time),
           environmental |-> RDiv(current_env, current_time),
           integrity |-> RDiv(current_integrity, current_time) ]
    ELSE [ cost |-> Zero, environmental |-> Zero, integrity |-> Zero ]

\* Lines 449-466: the PathwayResult built from the locals.
BuildResult ==
    [ name |-> name,
      stages |-> stages,
      trajectory_coords |-> trajectory_coords,
      triangle_coords |-> triangle_coords,
      cumulative_time |-> time_points,
      cumulative_cost |-> cost_cumulative,
      cumulative_environmental |-> env_cumulative,
      cumulative_integrity_loss |-> integrity_cumulative,
      total_duration |-> current_time,
      total_cycles |-> total_cycles,
      average_burden_rate |-> AverageBurdenRate,
      feasibility_flags |-> feasibility_flags ]

\* The registry replaced by one holding the new result only.
StoreResultAlone(pw, nm, result) == [ n \in {nm} |-> result ]

\* Line 329: self.pathways[name] = result
StoreResult(pw, nm, result) ==
    [ n \in DOMAIN pw \cup {nm} |-> IF n = nm THEN result ELSE pw[n] ]

\* Both loops are exhausted: the result is built, stored under the name and
\* returned (lines 442-468, 329-330).
Finish ==
    /\ pc = "loop"
    /\ stage_idx > Len(stages)
    /\ pathways' = StoreResult(pathways, name, BuildResult)
    /\ pc' = "returned"
    /\ SetFrame(NoFrame)
    /\ UNCHANGED <<assessment, name, stages, error, notices, built, call>>

\* Python's seq[-1]: the last element, IndexError on an empty sequence.
LastOf(seq) == seq[Len(seq)]

\* Lines 282-293: PathwayResult.get_summary_table.  The three [-1] subscripts
\* raise IndexError on a result whose cumulative arrays are empty.
GetSummaryTable(r) ==
    IF Len(r.cumulative_cost) = 0 \/ Len(r.cumulative_environmental) = 0
       \/ Len(r.cumulative_integrity_loss) = 0
    THEN [ error |-> "IndexError" ]
    ELSE "Total Duration (years)" :> r.total_duration
      @@ "Total Cycles" :> r.total_cycles
      @@ "Total Cost ($/kg)" :> LastOf(r.cumulative_cost)
      @@ "Total Environmental (kg CO2-eq/kg)" :> LastOf(r.cumulative_environmental)
      @@ "Total Integrity Loss" :> LastOf(r.cumulative_integrity_loss)
      @@ "Cost Rate ($/kg/yr)" :> r.average_burden_rate.cost
      @@ "Environmental Rate (kg CO2-eq/kg/yr)" :> r.average_burden_rate.environmental
      @@ "Integrity Loss Rate (/yr)" :> r.average_burden_rate.integrity

\* A caller asks a stored result for its summary (app.py line 406).
CallGetSummaryTable ==
    /\ Idle
    /\ \E n \in DOMAIN pathways :
          call' = [ fn |-> "get_summary_table", args |-> <<n>>,
                    result |-> GetSummaryTable(pathways[n]) ]
    /\ UNCHANGED <<assessment, pathways, pc, name, stages, error, notices, frame, built>>

\* ------------------------------------------------------------ specifications

\* An assessment to which pathways are added under two names.
Next ==
    \/ \E nm \in Names, stgs \in StageLists(RegistryPool) : AddPathway(nm, stgs)
    \/ CycleStep
    \/ Finish

Spec == Init /\ [][Next]_vars

\* One computation at a time on a fresh assessment, over the whole stage pool.
AddFirstPathway ==
    /\ pathways = EmptyRegistry
    /\ \E stgs \in StageLists(StagePool) : AddPathway("Mechanical Closed-Loop", stgs)

\* The stage lists of the pool with the downcycling stage as their last
\* stage: nothing is computed from the loss it leaves.
BoundaryLists ==
    { Append(q, Downcycling) :
        q \in { l \in StageLists(StagePool) : Len(l) < MaxStages } }

\* A computation that ends with the downcycling stage.
AddBoundaryPathway ==
    /\ pathways = EmptyRegistry
    /\ \E stgs \in BoundaryLists : AddPathway("Mechanical Closed-Loop", stgs)

NextBoundary ==
    \/ AddFirstPathway
    \/ AddBoundaryPathway
    \/ CycleStep
    \/ Finish

\* One computation at a time, also of pathways that end at the recyclability
\* threshold.
SpecBoundary == Init /\ [][NextBoundary]_vars

NextTraj ==
    \/ AddFirstPathway
    \/ CycleStep
    \/ Finish
    \/ CallGetSummaryTable

SpecTraj == Init /\ [][NextTraj]_vars

\* ------------------------------------------------------- material grading

\* Integrity losses a caller may grade: the four boundaries, the two ends of
\* [0,1] and a value inside each grade.
GradeInputs ==
    { Zero, <<1, 10>>, <<15, 100>>, <<1, 4>>, <<40, 100>>, <<1, 2>>,
      <<70, 100>>, <<4, 5>>, <<90, 100>>, <<19, 20>>, One }

\* IntegrityModel.get_material_grade(integrity_loss), a static method.
CallGetMaterialGrade ==
    /\ Idle
    /\ \E x \in GradeInputs :
          call' = [ fn |-> "get_material_grade", args |-> <<x>>,
                    result |-> GetMaterialGrade(x) ]
    /\ UNCHANGED <<assessment, pathways, pc, name, stages, error, notices, frame, built>>

\* A grading by a caller that holds a computed pathway.
GradeAfterReturn == pc = "returned" /\ CallGetMaterialGrade

NextGrade ==
    \/ AddFirstPathway
    \/ CycleStep
    \/ Finish
    \/ GradeAfterReturn

\* One pathway computation, then direct gradings.
SpecGrade == Init /\ [][NextGrade]_vars

\* ------------------------------------------------------ integrity recurrence

\* Arguments of calculate_integrity: losses inside and beyond [0,1], rates
\* below 0, inside [0,1] and above 1, mass fractions down to the one that
\* leaves a quality score of exactly 10.
IntegrityLosses == { Zero, <<1, 2>>, <<3, 2>> }
DegradationRates == { <<-1, 2>>, Zero, <<3, 2>> }
CycleNums == { 0, 2 }
MassFractions == { <<1, 10>>, <<1, 2>>, One }

\* IntegrityModel.calculate_integrity(current_integrity_loss,
\* base_degradation_rate, cycle_num, mass_fraction), a static method.
CallCalculateIntegrity ==
    /\ Idle
    /\ \E l \in IntegrityLosses, r \in DegradationRates, k \in CycleNums,
          m \in MassFractions :
          call' = [ fn |-> "calculate_integrity", args |-> <<l, r, k, m>>,
                    result |-> CalculateIntegrity(l, r, k, m) ]
    /\ UNCHANGED <<assessment, pathways, pc, name, stages, error, notices, frame, built>>

\* A direct call by a caller that holds a computed pathway.
IntegrityAfterReturn == pc = "returned" /\ CallCalculateIntegrity

NextIntegrity ==
    \/ AddFirstPathway
    \/ CycleStep
    \/ Finish
    \/ IntegrityAfterReturn

\* One pathway computation, then direct calls of calculate_integrity.
SpecIntegrity == Init /\ [][NextIntegrity]_vars

\* ------------------------------------------------------ constraint checking

\* Values of a constraint bound: absent, zero, a half.
BoundValues == { None, Zero, <<1, 2>> }

\* Constraints(cost_max, environmental_max, integrity_min), every bound
\* present or absent.
AllConstraints ==
    [ cost_max : BoundValues, environmental_max : BoundValues, integrity_min : BoundValues ]

\* Burden triples below, at and above the bounds.
BurdenValues == { <<1, 2>>, One }
AllBurdens == { BurdenMetrics(c, e, i) : c \in BurdenValues \cup {Zero}, e \in BurdenValues,
                                         i \in BurdenValues }

\* constraints.check_feasibility(burdens)
CallCheckFeasibility ==
    /\ Idle
    /\ \E cs \in AllConstraints, b \in AllBurdens :
          call' = [ fn |-> "check_feasibility", args |-> <<cs, b>>,
                    result |-> CheckFeasibility(cs, b) ]
    /\ UNCHANGED <<assessment, pathways, pc, name, stages, error, notices, frame, built>>

\* constraints.is_feasible(burdens)
CallIsFeasible ==
    /\ Idle
    /\ \E cs \in AllConstraints, b \in AllBurdens :
          call' = [ fn |-> "is_feasible", args |-> <<cs, b>>,
                    result |-> IsFeasible(cs, b) ]
    /\ UNCHANGED <<assessment, pathways, pc, name, stages, error, notices, frame, built>>

NextFeasibility == CallCheckFeasibility \/ CallIsFeasible

\* Feasibility checks of burden triples against constraints.
SpecFeasibility == Init /\ [][NextFeasibility]_vars

\* ------------------------------------------------------ ternary normalising

\* Non-negative arguments of normalize_ternary.
TernaryValues == { Zero, <<1, 4>>, <<1, 2>>, One, <<5, 1>> }

\* TernaryGeometry.normalize_ternary(a, b, c), a static method.
CallNormalizeTernary ==
    /\ Idle
    /\ \E a, b, c \in TernaryValues :
          call' = [ fn |-> "normalize_ternary", args |-> <<a, b, c>>,
                    result |-> NormalizeTernary(a, b, c) ]
    /\ UNCHANGED <<assessment, pathways, pc, name, stages, error, notices, frame, built>>

NextTernary == CallNormalizeTernary

\* Normalisations of non-negative triples.
SpecTernary == Init /\ [][NextTernary]_vars

\* ------------------------------------------------- value-object construction

\* Field values a caller may try, valid and invalid.
RawValues == { <<-1, 2>>, Zero, <<1, 2>>, One, <<3, 2>> }
RawCycles == { -1, 0, 1, 2 }

\* BurdenMetrics(cost, environmental, integrity_loss)
ConstructBurdenMetrics ==
    \E c, e, i \in RawValues :
        /\ built' = [type |-> "BurdenMetrics", args |-> <<c, e, i>>,
                     outcome |-> BurdenMetricsCheck(c, e, i)]
        /\ UNCHANGED <<assessment, pathways, pc, name, stages, error, notices, frame, call>>

\* LifecycleStage(name, burdens, duration, mass_fraction, cycles) over burdens
\* already constructed.
ConstructLifecycleStage ==
    \E d, m \in RawValues, k \in RawCycles :
        /\ built' = [type |-> "LifecycleStage", args |-> <<d, m, k>>,
                     outcome |-> LifecycleStageCheck(d, m, k)]
        /\ UNCHANGED <<assessment, pathways, pc, name, stages, error, notices, frame, call>>

\* Benchmarks(cost_max, environmental_max, integrity_loss_max)
ConstructBenchmarks ==
    \E c, e, i \in RawValues :
        /\ built' = [type |-> "Benchmarks", args |-> <<c, e, i>>,
                     outcome |-> BenchmarksCheck(c, e, i)]
        /\ UNCHANGED <<assessment, pathways, pc, name, stages, error, notices, frame, call>>

NextCtor == ConstructBurdenMetrics \/ ConstructLifecycleStage \/ ConstructBenchmarks

SpecCtor == Init /\ [][NextCtor]_vars

\* ==================================================================== claims

RECURSIVE SumCycles(_)
\* sum(stage.cycles for stage in stages)
SumCycles(stgs) == IF stgs = <<>> THEN 0 ELSE Head(stgs).cycles + SumCycles(Tail(stgs))

\* The index of the stage called nm in a list of distinctly named stages.
StageIndex(stgs, nm) == CHOOSE i \in 1..Len(stgs) : stgs[i].name = nm

\* Position <<s1, c1>> comes before <<s2, c2>> in stage order.
Before(s1, c1, s2, c2) == s1 < s2 \/ (s1 = s2 /\ c1 < c2)

\* The points recorded by the current call, or held by the result it stored.
RecordedPoints ==
    IF pc = "returned" THEN pathways[name].trajectory_coords ELSE trajectory_coords

\* C1: once a cycle is rejected as non-recyclable the whole pathway stops: no
\* further cycle is executed (so at most one cycle is ever rejected) and every
\* recorded point lies at a (stage, cycle) position before the first rejected
\* one.
C1_PathwayStopsAtFirstRejection ==
    notices # <<>> =>
        /\ Len(notices) = 1
        /\ \A i \in 1..Len(RecordedPoints) :
              Before(StageIndex(stages, RecordedPoints[i].stage_name[1]),
                     RecordedPoints[i].cycle_number,
                     StageIndex(stages, notices[1].stage), notices[1].cycle)

\* C2: in every PathwayResult of the registry the trajectory, the triangles,
\* the four cumulative arrays and the feasibility flags all have length
\* total_cycles.
C2_LengthsEqualTotalCycles ==
    \A n \in DOMAIN pathways :
        LET r == pathways[n] IN
        /\ Len(r.trajectory_coords) = r.total_cycles
        /\ Len(r.triangle_coords) = r.total_cycles
        /\ Len(r.cumulative_time) = r.total_cycles
        /\ Len(r.cumulative_cost) = r.total_cycles
        /\ Len(r.cumulative_environmental) = r.total_cycles
        /\ Len(r.cumulative_integrity_loss) = r.total_cycles
        /\ Len(r.feasibility_flags) = r.total_cycles

\* C3: the returned total_cycles is at most the sum of the stages' cycles and
\* equals it exactly when no cycle of the pathway was rejected.
C3_TotalCyclesDetectsTruncation ==
    pc = "returned" =>
        LET r == pathways[name] IN
        /\ r.total_cycles <= SumCycles(r.stages)
        /\ (r.total_cycles = SumCycles(r.stages)) <=> (notices = <<>>)

\* C4: when the first cycle of the first stage is rejected, the result has
\* total_cycles = 0 and empty trajectory, triangle and cumulative sequences.
C4_FirstCycleRejectedGivesEmptyResult ==
    ( /\ pc = "returned"
      /\ notices # <<>>
      /\ notices[1].stage = stages[1].name
      /\ notices[1].cycle = 1 ) =>
        LET r == pathways[name] IN
        /\ r.total_cycles = 0
        /\ r.trajectory_coords = <<>>
        /\ r.triangle_coords = <<>>
        /\ r.cumulative_time = <<>>
        /\ r.cumulative_cost = <<>>
        /\ r.cumulative_environmental = <<>>
        /\ r.cumulative_integrity_loss = <<>>

\* C5: a call in which a cycle was rejected raises nothing: it ends by
\* returning, with its result stored under the pathway name.
C5_TruncationIsNotAnError ==
    (notices # <<>> /\ pc \in {"returned", "raised"}) =>
        /\ pc = "returned"
        /\ error = ""
        /\ name \in DOMAIN pathways
        /\ pathways[name].name = name
        /\ pathways[name].stages = stages

\* C6: add_pathway with an empty stage list raises the empty-pathway error and
\* leaves the registry, the benchmarks and the constraints as they were.
C6_EmptyPathwayRejected ==
    [][ (Idle /\ stages' = <<>>) =>
            /\ pc' = "raised"
            /\ error' = "ValueError: Pathway must have at least one stage"
            /\ pathways' = pathways
            /\ assessment' = assessment ]_vars

\* C6 witness: the empty-pathway error was raised for a name that holds a
\* result, another name holding one too.
C6_Witness ==
    /\ pc = "raised"
    /\ stages = <<>>
    /\ name \in DOMAIN pathways
    /\ DOMAIN pathways = Names

\* C7: the step on which add_pathway returns sets pathways[name] to the result
\* just computed and changes no entry under another name, nor the benchmarks,
\* the constraints or the waste defaults.
C7_OnlyNamedEntryChanges ==
    [][ (pc = "loop" /\ pc' = "returned") =>
            /\ DOMAIN pathways' = DOMAIN pathways \cup {name}
            /\ pathways'[name].name = name
            /\ pathways'[name].stages = stages
            /\ pathways'[name].trajectory_coords = trajectory_coords
            /\ pathways'[name].total_cycles = total_cycles
            /\ \A n \in DOMAIN pathways \ {name} : pathways'[n] = pathways[n]
            /\ assessment' = assessment ]_vars

\* C7 witness: a call returned while the other name holds the result of a
\* different stage list.
C7_Witness ==
    /\ pc = "returned"
    /\ DOMAIN pathways = Names
    /\ \E n \in Names \ {name} :
          /\ pathways[n].stages # stages
          /\ pathways[n].trajectory_coords # <<>>
    /\ pathways[name].trajectory_coords # <<>>

\* C8: when add_pathway returns for a name whose stored result was computed
\* from the same stage list, the registry is left exactly as it was.
C8_AddPathwayIdempotent ==
    [][ ( /\ pc = "loop" /\ pc' = "returned"
          /\ name \in DOMAIN pathways
          /\ pathways[name].stages = stages ) =>
            pathways' = pathways ]_vars

\* C8 witness: the second of two identical calls has run all its cycles,
\* recording some and rejecting one, and is about to store its result.
C8_Witness ==
    /\ pc = "loop"
    /\ stage_idx > Len(stages)
    /\ name \in DOMAIN pathways
    /\ pathways[name].stages = stages
    /\ trajectory_coords # <<>>
    /\ notices # <<>>

\* C9: two names whose results were computed from the same stage list hold the
\* same result (up to the name), whatever the registry held when each was
\* computed and whichever was added first.
C9_ResultDependsOnStagesOnly ==
    \A n1, n2 \in DOMAIN pathways :
        pathways[n1].stages = pathways[n2].stages =>
            [pathways[n1] EXCEPT !.name = n2] = pathways[n2]

\* C9 witness: both names hold the result of the same stage list, with
\* recorded points.
C9_Witness ==
    /\ DOMAIN pathways = Names
    /\ \A n1, n2 \in Names : pathways[n1].stages = pathways[n2].stages
    /\ \A n \in Names : pathways[n].trajectory_coords # <<>>

\* C10: constructing a BurdenMetrics with a negative cost or environmental
\* value or an integrity_loss outside [0,1], a LifecycleStage with duration
\* < 0, mass_fraction outside (0,1] or cycles < 1, or a Benchmarks with
\* cost_max <= 0, environmental_max <= 0 or integrity_loss_max outside (0,1],
\* fails with a ValueError.
C10_InvalidValueObjectsRejected ==
    LET a == built.args
        failed == built.outcome # "ok"
    IN  /\ built.type = "BurdenMetrics" =>
              ( ( \/ RLt(a[1], Zero) \/ RLt(a[2], Zero)
                  \/ RLt(a[3], Zero) \/ RLt(One, a[3]) ) => failed )
        /\ built.type = "LifecycleStage" =>
              ( ( \/ RLt(a[1], Zero)
                  \/ RLe(a[2], Zero) \/ RLt(One, a[2])
                  \/ a[3] < 1 ) => failed )
        /\ built.type = "Benchmarks" =>
              ( ( \/ RLe(a[1], Zero) \/ RLe(a[2], Zero)
                  \/ RLe(a[3], Zero) \/ RLt(One, a[3]) ) => failed )

\* C10 witness: a Benchmarks with cost_max = 0 was refused.
C10_Witness ==
    /\ built.type = "Benchmarks"
    /\ built.args[1] = Zero
    /\ RLt(Zero, built.args[2])
    /\ built.args[3] = One
    /\ built.outcome = "ValueError: Benchmark maxima must be positive"

\* C11: every stored PathwayResult, a truncated one included, yields a summary
\* record through get_summary_table: its totals are the final cumulative cost,
\* environmental burden and integrity loss, and its duration, cycle count and
\* rates are total_duration, total_cycles and average_burden_rate.
C11_SummaryOfEveryStoredResult ==
    call.fn = "get_summary_table" =>
        LET r == pathways[call.args[1]]
            t == call.result
        IN  /\ "error" \notin DOMAIN t
            /\ t["Total Cost ($/kg)"] = r.cumulative_cost[Len(r.cumulative_cost)]
            /\ t["Total Environmental (kg CO2-eq/kg)"]
                   = r.cumulative_environmental[Len(r.cumulative_environmental)]
            /\ t["Total Integrity Loss"]
                   = r.cumulative_integrity_loss[Len(r.cumulative_integrity_loss)]
            /\ t["Total Duration (years)"] = r.total_duration
            /\ t["Total Cycles"] = r.total_cycles
            /\ t["Cost Rate ($/kg/yr)"] = r.average_burden_rate.cost
            /\ t["Environmental Rate (kg CO2-eq/kg/yr)"] = r.average_burden_rate.environmental
            /\ t["Integrity Loss Rate (/yr)"] = r.average_burden_rate.integrity

\* The grades and the interval of integrity losses the specification gives
\* each: closed on the left, open on the right, E closed at 1.
Grades == {"A", "B", "C", "D", "E"}
GradeFrom ==
    [ A |-> Zero, B |-> <<15, 100>>, C |-> <<40, 100>>, D |-> <<70, 100>>, E |-> <<90, 100>> ]
GradeBelow ==
    [ A |-> <<15, 100>>, B |-> <<40, 100>>, C |-> <<70, 100>>, D |-> <<90, 100>> ]
InGrade(x, g) ==
    /\ RLe(GradeFrom[g], x)
    /\ IF g = "E" THEN RLe(x, One) ELSE RLt(x, GradeBelow[g])

\* C12: get_material_grade maps every integrity_loss in [0,1] to the one grade
\* among A [0,0.15), B [0.15,0.40), C [0.40,0.70), D [0.70,0.90), E [0.90,1]
\* whose interval holds it, a boundary value going to the worse grade; and the
\* grade of every recorded point is the grade of its
\* cumulative_integrity_loss.
C12_GradePartition ==
    /\ call.fn = "get_material_grade" =>
           /\ call.result[1] \in Grades
           /\ \A g \in Grades : (call.result[1] = g) <=> InGrade(call.args[1], g)
    /\ \A i \in 1..Len(RecordedPoints) :
           LET p == RecordedPoints[i]
           IN  /\ p.material_grade \in Grades
               /\ \A g \in Grades :
                      (p.material_grade = g) <=> InGrade(p.cumulative_integrity_loss, g)

\* A boundary value has been graded B after a pathway recorded a point of
\* grade C.
C12_Witness ==
    /\ call.fn = "get_material_grade"
    /\ call.args = << <<15, 100>> >>
    /\ call.result[1] = "B"
    /\ pc = "returned"
    /\ \E i \in 1..Len(RecordedPoints) : RecordedPoints[i].material_grade = "C"

\* The cumulative integrity losses recorded by the current call, or held by
\* the result it stored.
RecordedIntegrity ==
    IF pc = "returned" THEN pathways[name].cumulative_integrity_loss
    ELSE integrity_cumulative

\* Every stage of the pathway degrades: base degradation rate >= 0, the three
\* increases per cycle >= 0 and mass_fraction in (0,1].
DegradingStages ==
    \A k \in 1..Len(stages) :
        /\ RLe(Zero, stages[k].burdens.integrity_loss)
        /\ RLe(Zero, stages[k].cost_increase_per_cycle)
        /\ RLe(Zero, stages[k].env_increase_per_cycle)
        /\ RLe(Zero, stages[k].integrity_increase_per_cycle)
        /\ RLt(Zero, stages[k].mass_fraction) /\ RLe(stages[k].mass_fraction, One)

\* C13: for a pathway of degrading stages the cumulative integrity loss of
\* consecutive recorded points never decreases, within a stage and across
\* stage boundaries, and every value lies in [0,1].
C13_IntegrityNeverImproves ==
    (pc \in {"loop", "returned"} /\ DegradingStages) =>
        /\ \A i \in 1..Len(RecordedIntegrity) :
               /\ RLe(Zero, RecordedIntegrity[i]) /\ RLe(RecordedIntegrity[i], One)
               /\ RecordedPoints[i].cumulative_integrity_loss = RecordedIntegrity[i]
        /\ \A i \in 1..(Len(RecordedIntegrity) - 1) :
               RLe(RecordedIntegrity[i], RecordedIntegrity[i + 1])

\* A returned pathway of degrading stages whose loss grew within a stage and
\* across a stage boundary.
C13_Witness ==
    /\ pc = "returned"
    /\ DegradingStages
    /\ \E i \in 1..(Len(RecordedIntegrity) - 2) :
          /\ RLt(RecordedIntegrity[i], RecordedIntegrity[i + 1])
          /\ RLt(RecordedIntegrity[i + 1], RecordedIntegrity[i + 2])
          /\ RecordedPoints[i].stage_name[1] # RecordedPoints[i + 1].stage_name[1]
          /\ RecordedPoints[i + 1].stage_name[1] = RecordedPoints[i + 2].stage_name[1]

\* The bounds of cs that are present, by the key check_feasibility reports
\* them under.
PresentBounds(cs) ==
    { k \in {"cost", "environmental", "integrity"} :
        CASE k = "cost" -> cs.cost_max # None
          [] k = "environmental" -> cs.environmental_max # None
          [] k = "integrity" -> cs.integrity_min # None }

\* The bound of cs named k, which is present, is satisfied by the burdens b.
BoundSatisfied(cs, b, k) ==
    CASE k = "cost" -> ~RLt(cs.cost_max, b.cost)
      [] k = "environmental" -> ~RLt(cs.environmental_max, b.environmental)
      [] k = "integrity" -> ~RLt(One, RAdd(cs.integrity_min, b.integrity_loss))

\* C14: is_feasible is true exactly when every bound that is present is
\* satisfied (cost <= cost_max, environmental <= environmental_max,
\* 1 - integrity_loss >= integrity_min); check_feasibility has an entry for
\* each bound that is present and for no other; with no bound present every
\* burden triple is feasible.
C14_AllPresentBoundsSatisfied ==
    /\ call.fn = "is_feasible" =>
           LET cs == call.args[1]
               b == call.args[2]
           IN  /\ call.result <=> \A k \in PresentBounds(cs) : BoundSatisfied(cs, b, k)
               /\ PresentBounds(cs) = {} => call.result
    /\ call.fn = "check_feasibility" =>
           LET cs == call.args[1]
               b == call.args[2]
           IN  /\ DOMAIN call.result = PresentBounds(cs)
               /\ \A k \in PresentBounds(cs) : call.result[k] <=> BoundSatisfied(cs, b, k)

\* is_feasible has answered False for burdens that meet the cost and the
\* environmental bound but not the integrity bound.
C14_Witness ==
    /\ call.fn = "is_feasible"
    /\ ~call.result
    /\ PresentBounds(call.args[1]) = {"cost", "environmental", "integrity"}
    /\ BoundSatisfied(call.args[1], call.args[2], "cost")
    /\ BoundSatisfied(call.args[1], call.args[2], "environmental")
    /\ ~BoundSatisfied(call.args[1], call.args[2], "integrity")

\* The feasibility flags recorded by the current call, or held by the result
\* it stored.
RecordedFlags ==
    IF pc = "returned" THEN pathways[name].feasibility_flags ELSE feasibility_flags

\* The stage a recorded point belongs to, and the point's zero-based cycle
\* index within it.
StageOf(p) == stages[StageIndex(stages, p.stage_name[1])]
CycleNumOf(p) == p.cycle_number - 1

\* base + cycle_num * increase for the cycle of the recorded point p.
InstantCost(p) ==
    RAdd(StageOf(p).burdens.cost,
         RMul(<<CycleNumOf(p), 1>>, StageOf(p).cost_increase_per_cycle))
InstantEnv(p) ==
    RAdd(StageOf(p).burdens.environmental,
         RMul(<<CycleNumOf(p), 1>>, StageOf(p).env_increase_per_cycle))

\* C15: the feasibility flag of each recorded point is evaluated on that
\* cycle's own cost and environmental values (base + cycle_num * increase),
\* not on the cumulative totals: a cycle whose cost exceeds the cost bound has
\* feasibility['cost'] = False and is_feasible = False, and a cycle whose cost
\* is within the bound is cost-feasible whatever the cumulative cost.
C15_FlagsOnInstantaneousValues ==
    /\ Len(RecordedFlags) = Len(RecordedPoints)
    /\ \A i \in 1..Len(RecordedPoints) :
           LET p == RecordedPoints[i]
               f == RecordedFlags[i]
           IN  /\ f.stage = p.stage_name
               /\ constraints.cost_max # None =>
                      /\ f.feasibility["cost"] <=> RLe(InstantCost(p), constraints.cost_max)
                      /\ RLt(constraints.cost_max, InstantCost(p)) => ~f.is_feasible
               /\ constraints.environmental_max # None =>
                      /\ f.feasibility["environmental"]
                             <=> RLe(InstantEnv(p), constraints.environmental_max)
                      /\ RLt(constraints.environmental_max, InstantEnv(p)) => ~f.is_feasible

\* Under a cost bound, one recorded cycle is cost-feasible although the
\* cumulative cost has passed the bound, and another, whose own cost exceeds
\* the bound, is flagged infeasible.
C15_Witness ==
    /\ constraints.cost_max # None
    /\ \E i, j \in 1..Len(RecordedPoints) :
          /\ RecordedFlags[i].feasibility["cost"]
          /\ RLt(constraints.cost_max, RecordedPoints[i].cumulative_cost)
          /\ RLt(constraints.cost_max, InstantCost(RecordedPoints[j]))
          /\ ~RecordedFlags[j].feasibility["cost"]
          /\ RecordedFlags[j].feasibility["environmental"]
          /\ ~RecordedFlags[j].is_feasible

\* The final value of a cumulative array, 0 when nothing was recorded.
FinalOf(seq) == IF seq = <<>> THEN Zero ELSE seq[Len(seq)]

\* C16: in every stored result average_burden_rate holds the final cumulative
\* cost, environmental burden and integrity loss, each divided by the final
\* elapsed time, when that time is > 0; when the elapsed time is 0 the three
\* rates are zero, and no rate is the outcome of a division by zero.
C16_AverageBurdenRate ==
    \A n \in DOMAIN pathways :
        LET r == pathways[n]
            rate == r.average_burden_rate
        IN  /\ rate.cost[2] > 0 /\ rate.environmental[2] > 0 /\ rate.integrity[2] > 0
            /\ IF RLt(Zero, r.total_duration)
               THEN /\ r.cumulative_cost # <<>>
                    /\ rate.cost = RDiv(FinalOf(r.cumulative_cost), r.total_duration)
                    /\ rate.environmental
                          = RDiv(FinalOf(r.cumulative_environmental), r.total_duration)
                    /\ rate.integrity
                          = RDiv(FinalOf(r.cumulative_integrity_loss), r.total_duration)
               ELSE /\ r.total_duration = Zero
                    /\ rate.cost = Zero /\ rate.environmental = Zero
                    /\ rate.integrity = Zero

\* A stored result of zero-duration cycles: burdens were accumulated, no time
\* elapsed, the rates are zero.
C16_Witness ==
    \E n \in DOMAIN pathways :
        /\ pathways[n].total_duration = Zero
        /\ pathways[n].cumulative_cost # <<>>
        /\ RLt(Zero, FinalOf(pathways[n].cumulative_cost))
        /\ pathways[n].average_burden_rate.cost = Zero

\* The sum of three numbers, exact.
Sum3(t) == RAdd(RAdd(t[1], t[2]), t[3])

\* The sum of three floats as the program would compute it, t[0] + t[1] +
\* t[2], each addition rounding.
FloatSum3(t) == Round(RAdd(Round(RAdd(t[1], t[2])), t[3]))

\* |x - y| <= z
Within(x, y, z) == RLe(RSub(x, y), z) /\ RLe(RSub(y, x), z)

\* Half a unit in the last place of 1: the largest relative error of a
\* rounded quotient.
HalfUlp == <<1, MantissaLimit>>

Clamp01(x) == IF RLt(x, Zero) THEN Zero ELSE IF RLt(One, x) THEN One ELSE x

\* The cycles executed by the current or last call, recorded or rejected,
\* each with its position, the quality score it computed and the integrity
\* loss it put out.
ExecutedCycles ==
    { [ pos |-> <<StageIndex(stages, RecordedPoints[i].stage_name[1]),
                  RecordedPoints[i].cycle_number>>,
        quality_score |-> RecordedPoints[i].quality_score,
        loss |-> RecordedPoints[i].cumulative_integrity_loss ]
      : i \in 1..Len(RecordedPoints) }
    \cup
    { [ pos |-> <<StageIndex(stages, notices[i].stage), notices[i].cycle>>,
        quality_score |-> notices[i].quality_score,
        loss |-> Clamp01(RSub(One, Rat(notices[i].quality_score[1],
                                       100 * notices[i].quality_score[2]))) ]
      : i \in 1..Len(notices) }

\* The integrity loss put out by the cycle executed just before e, 0 when e
\* is the first.
OutputBefore(e) ==
    LET earlier == { d \in ExecutedCycles : Before(d.pos[1], d.pos[2], e.pos[1], e.pos[2]) }
    IN  IF earlier = {} THEN Zero
        ELSE (CHOOSE d \in earlier :
                \A c \in earlier : c = d \/ Before(c.pos[1], c.pos[2], d.pos[1], d.pos[2])).loss

\* The remaining quality the recurrence gives from a loss, a rate and a mass
\* fraction.
Recurrence(loss, rate, mass) ==
    RMul(RMul(RMax(Zero, RSub(One, loss)), RSub(One, rate)), mass)

\* C18: calculate_integrity computes remaining = max(0, 1 - loss),
\* new_remaining = remaining * (1 - rate) * mass_fraction, new loss =
\* clamp(1 - new_remaining, 0, 1), quality_score = 100 * new_remaining,
\* is_recyclable exactly when quality_score >= 10 and cycles_processed =
\* cycle_num + 1; and the engine feeds every executed cycle the integrity loss
\* put out by the cycle before it, with rate = base integrity_loss +
\* cycle_num * integrity_increase_per_cycle.
C18_IntegrityRecurrence ==
    /\ call.fn = "calculate_integrity" =>
           LET new_remaining == Recurrence(call.args[1], call.args[2], call.args[4])
               d == call.result
           IN  /\ d.remaining_quality = new_remaining
               /\ d.integrity_loss = Clamp01(RSub(One, new_remaining))
               /\ d.quality_score = RMul(<<100, 1>>, new_remaining)
               /\ d.is_recyclable <=> ~RLt(d.quality_score, <<10, 1>>)
               /\ d.cycles_processed = call.args[3] + 1
    /\ pc \in {"loop", "returned"} =>
           \A e \in ExecutedCycles :
               LET stage == stages[e.pos[1]]
                   rate == RAdd(stage.burdens.integrity_loss,
                                RMul(<<e.pos[2] - 1, 1>>, stage.integrity_increase_per_cycle))
               IN  e.quality_score
                     = RMul(<<100, 1>>, Recurrence(OutputBefore(e), rate, stage.mass_fraction))

\* The cumulative cost and environmental arrays of the current call, or of
\* the result it stored.
RecordedCost ==
    IF pc = "returned" THEN pathways[name].cumulative_cost ELSE cost_cumulative
RecordedEnv ==
    IF pc = "returned" THEN pathways[name].cumulative_environmental ELSE env_cumulative

\* The mass-scaled cost and environmental terms of the first k recorded
\* cycles, summed.
RECURSIVE CostTerms(_)
CostTerms(k) ==
    IF k = 0 THEN Zero
    ELSE RAdd(CostTerms(k - 1),
              RMul(InstantCost(RecordedPoints[k]), StageOf(RecordedPoints[k]).mass_fraction))
RECURSIVE EnvTerms(_)
EnvTerms(k) ==
    IF k = 0 THEN Zero
    ELSE RAdd(EnvTerms(k - 1),
              RMul(InstantEnv(RecordedPoints[k]), StageOf(RecordedPoints[k]).mass_fraction))

\* C19: each recorded cycle adds (base + cycle_num * increase_per_cycle) *
\* mass_fraction to the cumulative cost and to the cumulative environmental
\* burden, cycle_num being the zero-based index within the stage; the final
\* totals are the sums of these terms over the recorded cycles; the cumulative
\* integrity loss is the loss put out by the integrity model, not scaled by
\* the mass fraction again.
C19_MassScaledAccumulation ==
    /\ Len(RecordedCost) = Len(RecordedPoints)
    /\ Len(RecordedEnv) = Len(RecordedPoints)
    /\ \A i \in 1..Len(RecordedPoints) :
           LET p == RecordedPoints[i]
               mass == StageOf(p).mass_fraction
               previous_cost == IF i = 1 THEN Zero ELSE RecordedCost[i - 1]
               previous_env == IF i = 1 THEN Zero ELSE RecordedEnv[i - 1]
           IN  /\ RecordedCost[i] = RAdd(previous_cost, RMul(InstantCost(p), mass))
               /\ RecordedEnv[i] = RAdd(previous_env, RMul(InstantEnv(p), mass))
               /\ p.cumulative_cost = RecordedCost[i]
               /\ p.cumulative_environmental = RecordedEnv[i]
               /\ p.cumulative_integrity_loss = Clamp01(RSub(One, p.remaining_quality))
               /\ RecordedIntegrity[i] = p.cumulative_integrity_loss
    /\ FinalOf(RecordedCost) = CostTerms(Len(RecordedPoints))
    /\ FinalOf(RecordedEnv) = EnvTerms(Len(RecordedPoints))

\* Recorded so far: a cycle of a stage with mass_fraction < 1 and a later
\* cycle of a stage whose cost changes per cycle, both with their terms in the
\* cumulative cost.
C19_Witness ==
    \E i, j \in 1..Len(RecordedPoints) :
        /\ i < j
        /\ RLt(StageOf(RecordedPoints[i]).mass_fraction, One)
        /\ RLt(Zero, RecordedCost[i])
        /\ CycleNumOf(RecordedPoints[j]) > 0
        /\ StageOf(RecordedPoints[j]).cost_increase_per_cycle # Zero
        /\ InstantCost(RecordedPoints[j]) # StageOf(RecordedPoints[j]).burdens.cost

\* The cumulative times and the triangles of the current call, or of the
\* result it stored.
RecordedTime ==
    IF pc = "returned" THEN pathways[name].cumulative_time ELSE time_points
RecordedTriangles ==
    IF pc = "returned" THEN pathways[name].triangle_coords ELSE triangle_coords

\* The durations of the first k recorded cycles, summed.
RECURSIVE DurationTerms(_)
DurationTerms(k) ==
    IF k = 0 THEN Zero
    ELSE RAdd(DurationTerms(k - 1), StageOf(RecordedPoints[k]).duration)

\* C20: every recorded cycle advances the elapsed time by its stage's
\* duration, whatever the mass fraction: cumulative_time[i] is the sum of the
\* durations of the recorded cycles up to i, the z of the point and of the
\* four triangle vertices is that value, cumulative_time never decreases, and
\* total_duration is the last cumulative_time (0 when nothing was recorded);
\* the duration of a rejected cycle is not added.
C20_ElapsedTime ==
    /\ Len(RecordedTime) = Len(RecordedPoints)
    /\ Len(RecordedTriangles) = Len(RecordedPoints)
    /\ \A i \in 1..Len(RecordedPoints) :
           LET previous == IF i = 1 THEN Zero ELSE RecordedTime[i - 1]
           IN  /\ RecordedTime[i] = RAdd(previous, StageOf(RecordedPoints[i]).duration)
               /\ RecordedTime[i] = DurationTerms(i)
               /\ RLe(previous, RecordedTime[i])
               /\ RecordedPoints[i].z = RecordedTime[i]
               /\ \A v \in 1..4 : RecordedTriangles[i].z[v] = RecordedTime[i]
    /\ pc = "loop" => current_time = FinalOf(RecordedTime)
    /\ pc = "returned" =>
           /\ pathways[name].total_duration = FinalOf(RecordedTime)
           /\ pathways[name].total_duration = DurationTerms(Len(RecordedPoints))

\* A stored result with cycles of different stages recorded at growing times
\* and a rejected cycle of a stage with a positive duration.
C20_Witness ==
    /\ pc = "returned"
    /\ Len(RecordedPoints) >= 2
    /\ RLt(RecordedTime[1], RecordedTime[Len(RecordedTime)])
    /\ \E i \in 1..Len(notices) :
          RLt(Zero, stages[StageIndex(stages, notices[i].stage)].duration)
    /\ \E i \in 1..Len(RecordedPoints) :
          RLt(StageOf(RecordedPoints[i]).mass_fraction, One)

\* C21: the point and the triangle of a recorded cycle are built from one
\* burden triple, the cycle's own cost and environmental value and the new
\* cumulative integrity loss: total_burden is their sum, normalized_burdens
\* is the triple divided component-wise by the benchmark maxima, the triangle
\* is the base triangle with its vertices scaled by these same normalized
\* values, and cumulative_cost / cumulative_environmental of the point hold
\* the accumulated totals.
C21_PointAndTriangleFromCycleBurdens ==
    \A i \in 1..Len(RecordedPoints) :
        LET p == RecordedPoints[i]
            t == RecordedTriangles[i]
            loss == p.cumulative_integrity_loss
            n1 == RDiv(InstantCost(p), benchmarks.cost_max)
            n2 == RDiv(InstantEnv(p), benchmarks.environmental_max)
            n3 == RDiv(loss, benchmarks.integrity_loss_max)
        IN  /\ p.total_burden = RAdd(RAdd(InstantCost(p), InstantEnv(p)), loss)
            /\ p.normalized_burdens = <<n1, n2, n3>>
            /\ t.x = << RMul(Zero, n1), n2, RMul(<<1, 2>>, n3), RMul(Zero, n1) >>
            /\ t.y = << Zero, Zero, n3, Zero >>
            /\ t.stage_name = p.stage_name
            /\ p.cumulative_cost = RecordedCost[i]
            /\ p.cumulative_environmental = RecordedEnv[i]

\* A recorded cycle whose accumulated cost and environmental totals differ
\* from its own values, under benchmarks that change the triple.
C21_Witness ==
    \E i \in 1..Len(RecordedPoints) :
        /\ RecordedPoints[i].cumulative_cost # InstantCost(RecordedPoints[i])
        /\ RecordedPoints[i].cumulative_environmental # InstantEnv(RecordedPoints[i])
        /\ RLt(Zero, RecordedPoints[i].cumulative_integrity_loss)
        /\ benchmarks.cost_max # One
        /\ RecordedPoints[i].normalized_burdens[1] # InstantCost(RecordedPoints[i])

\* C22: a rejected cycle appends nothing to the trajectory, the triangles,
\* the cumulative arrays and the feasibility flags, and leaves current_time,
\* current_cost, current_env and current_integrity at the values of the last
\* recorded point (0 when no point is recorded).
C22_RejectedCycleLeavesStateAlone ==
    [][ (pc = "loop" /\ pc' = "loop" /\ Len(notices') > Len(notices)) =>
            /\ UNCHANGED <<trajectory_coords, triangle_coords, time_points,
                           cost_cumulative, env_cumulative, integrity_cumulative,
                           feasibility_flags>>
            /\ UNCHANGED <<current_time, current_cost, current_env, current_integrity>>
            /\ current_time' = FinalOf(time_points')
            /\ current_cost' = FinalOf(cost_cumulative')
            /\ current_env' = FinalOf(env_cumulative')
            /\ current_integrity' = FinalOf(integrity_cumulative') ]_vars

\* In the loop, after a point was recorded, a cycle of a stage with a
\* positive duration and a positive cost has been rejected.
C22_Witness ==
    /\ pc = "loop"
    /\ trajectory_coords # <<>>
    /\ notices # <<>>
    /\ Before(StageIndex(stages, trajectory_coords[1].stage_name[1]),
              trajectory_coords[1].cycle_number,
              StageIndex(stages, notices[1].stage), notices[1].cycle)
    /\ RLt(Zero, stages[StageIndex(stages, notices[1].stage)].duration)
    /\ RLt(Zero, stages[StageIndex(stages, notices[1].stage)].burdens.cost)
    /\ current_time = FinalOf(time_points)

C24_NoErrorInsideTrajectory ==
    /\ pc = "raised" => stages = <<>>
    /\ (pc = "returned" /\ stages # <<>>) =>
           /\ error = ""
           /\ name \in DOMAIN pathways
           /\ pathways[name].stages = stages

====
